---- MODULE Spec2Model ----
(***************************************************************************)
(* Settings resolution of pydantic's BaseSettings (pydantic/env_settings): *)
(* Config.prepare_field computes each field's env_names once per class;    *)
(* BaseSettings.__init__ then runs the additional getters, reads the       *)
(* process environment, and deep-merges both with the caller's keyword     *)
(* arguments before the mapping is handed to BaseModel.__init__.           *)
(*                                                                         *)
(* Strings that the code inspects character by character (field names,     *)
(* aliases, environment variable names, mapping keys, the prefix) are      *)
(* sequences of one-character strings.  Values are tagged records: None,   *)
(* a str holding raw text, or a dict from sub-keys to values.              *)
(***************************************************************************)
EXTENDS Integers, Sequences, FiniteSets, TLC

VARIABLES
    config,          \* __config__: case_sensitive, extra, env_prefix, additional_getters
    fields,          \* __fields__ in declaration order: name, alias, is_complex, env
    os_environ,      \* os.environ: a sequence of <<name, text>> with distinct names
    init_kwargs,     \* **values passed to __init__
    env_names,       \* field_info.extra['env_names'] of the fields prepared so far
    warnings,        \* number of FutureWarnings issued by prepare_field
    pc,              \* where class creation / __init__ stands
    calls,           \* number of additional getters invoked so far
    normalized,      \* `normalized` of the last getter call in _get_additional_values
    result,          \* `result` of _get_additional_values
    environ_values,  \* what _build_environ returned
    env_read,        \* whether os.environ has been read
    decoded,         \* number of json_loads calls made
    consolidated,    \* what _build_values returned
    error            \* the exception that ended class creation or __init__, if any

vars == <<config, fields, os_environ, init_kwargs, env_names, warnings, pc, calls,
          normalized, result, environ_values, env_read, decoded, consolidated, error>>

inputs == <<config, fields, os_environ, init_kwargs>>

(***************************************************************************)
(* Values                                                                  *)
(***************************************************************************)
EmptyDict == [k \in {} |-> 0]

None == [t |-> "None"]

Str(s) == [t |-> "str", s |-> s]

Dict(m) == [t |-> "dict", m |-> m]

\* an exception: its class, the environment name it quotes (SettingsError), the
\* value and type it quotes (prepare_field), the exception it was raised from
NoError == [type |-> "", name |-> <<>>, value |-> "", vtype |-> "", cause |-> ""]

\* one entry after another into a dict: a later entry replaces an earlier one
Put(d, k, v) == [x \in DOMAIN d \cup {k} |-> IF x = k THEN v ELSE d[x]]

\* an update that lets the entries already there win
update_keep_first(d, other) == [x \in DOMAIN d \cup DOMAIN other |->
                                   IF x \in DOMAIN d THEN d[x] ELSE other[x]]

\* dict.update
update(d, other) == [x \in DOMAIN d \cup DOMAIN other |->
                        IF x \in DOMAIN other THEN other[x] ELSE d[x]]

Range(s) == {s[n] : n \in 1..Len(s)}

(***************************************************************************)
(* str.lower and str.replace(old, '')                                      *)
(***************************************************************************)
LowerChar(c) == CASE c = "A" -> "a"
                  [] c = "B" -> "b"
                  [] c = "P" -> "p"
                  [] OTHER -> c

lower(s) == [n \in 1..Len(s) |-> LowerChar(s[n])]

StartsWith(s, p) == Len(p) <= Len(s) /\ SubSeq(s, 1, Len(p)) = p

RECURSIVE replace(_, _)
replace(s, old) ==
    IF old = <<>> \/ s = <<>> THEN s
    ELSE IF StartsWith(s, old)
         THEN replace(SubSeq(s, Len(old) + 1, Len(s)), old)
         ELSE <<Head(s)>> \o replace(Tail(s), old)

(***************************************************************************)
(* Config.json_loads on the texts the environment holds                    *)
(***************************************************************************)
json_loads(text) ==
    CASE text = "{k:1}"     -> [ok |-> TRUE, v |-> Dict([x \in {"k"} |-> Str("1")])]
      [] text = "{k:2,j:3}" -> [ok |-> TRUE, v |-> Dict([x \in {"k", "j"} |->
                                                   IF x = "k" THEN Str("2") ELSE Str("3")])]
      [] text = "{k:{u:1}}" -> [ok |-> TRUE, v |-> Dict([x \in {"k"} |->
                                                   Dict([y \in {"u"} |-> Str("1")])])]
      [] OTHER              -> [ok |-> FALSE, v |-> None]

(***************************************************************************)
(* utils.deep_update                                                       *)
(***************************************************************************)
RECURSIVE deep_update(_, _)
deep_update(mapping, updating) ==
    [k \in DOMAIN mapping \cup DOMAIN updating |->
        IF k \notin DOMAIN updating THEN mapping[k]
        ELSE IF k \in DOMAIN mapping /\ mapping[k].t = "dict" /\ updating[k].t = "dict"
             THEN Dict(deep_update(mapping[k].m, updating[k].m))
             ELSE updating[k]]

(***************************************************************************)
(* Config.prepare_field                                                    *)
(***************************************************************************)
has_alias(field) == field.alias # field.name

\* the orders in which a set with these members may be iterated
Orders(S) == {s \in [1..Cardinality(S) -> S] : Range(s) = S}

\* a preparation that keeps the names as declared and takes any other shape
\* for an empty sequence
prepare_field_as_declared(field) ==
    {[error |-> NoError,
      names |-> IF field.env.t = "NoneType" THEN <<config.env_prefix \o field.name>>
                ELSE field.env.names]}

\* the env_names the field gets, or the exception raised; a set is iterated in
\* an order the caller cannot choose, so every order is a possible outcome
prepare_field(field) ==
    LET env == field.env
        low(names) == IF config.case_sensitive THEN names ELSE lower(names)
        lowAll(s) == [n \in 1..Len(s) |-> low(s[n])]
    IN  CASE env.t = "NoneType" ->
               {[error |-> NoError, names |-> <<low(config.env_prefix \o field.name)>>]}
          [] env.t = "str" ->
               {[error |-> NoError, names |-> <<low(env.names[1])>>]}
          [] env.t \in {"set", "frozenset"} ->
               {[error |-> NoError, names |-> s] : s \in Orders(Range(lowAll(env.names)))}
          [] env.t \in {"list", "tuple"} ->
               {[error |-> NoError, names |-> lowAll(env.names)]}
          [] OTHER ->
               {[error |-> [NoError EXCEPT !.type = "TypeError", !.value = env.repr,
                                           !.vtype = env.t],
                 names |-> <<>>]}

(***************************************************************************)
(* BaseSettings._normalize_items                                           *)
(***************************************************************************)
legal_names == {fields[n].alias : n \in 1..Len(fields)}

legal_lower_names == {lower(a) : a \in legal_names}

\* a policy test that tolerates unknown keys whatever the policy
relaxed_extra_always == config.extra \in {"allow", "ignore", "forbid"}

relaxed_extra == config.extra \in {"allow", "ignore"}

\* the key an entry is stored under, with `kept` false when it is skipped
normalize_key(name, value) ==
    LET new_name == IF config.case_sensitive THEN name ELSE lower(name)
        legal == IF config.case_sensitive THEN name \in legal_names
                 ELSE new_name \in legal_lower_names
    IN  [kept |-> value # None /\ (legal \/ relaxed_extra),
         key |-> replace(new_name, config.env_prefix)]

RECURSIVE normalize_from(_, _, _)
normalize_from(items, n, res) ==
    IF n > Len(items) THEN res
    ELSE LET nk == normalize_key(items[n][1], items[n][2])
         IN  normalize_from(items, n + 1,
                            IF nk.kept THEN Put(res, nk.key, items[n][2]) ELSE res)

_normalize_items(items) == normalize_from(items, 1, EmptyDict)

(***************************************************************************)
(* BaseSettings._build_environ                                             *)
(***************************************************************************)
\* an environment taken as it is, whatever the case sensitivity
RECURSIVE env_vars_from_verbatim(_, _)
env_vars_from_verbatim(n, d) ==
    IF n > Len(os_environ) THEN d
    ELSE env_vars_from_verbatim(n + 1, Put(d, os_environ[n][1], Str(os_environ[n][2])))

RECURSIVE env_vars_from(_, _)
env_vars_from(n, d) ==
    IF n > Len(os_environ) THEN d
    ELSE env_vars_from(n + 1,
            Put(d, IF config.case_sensitive THEN os_environ[n][1] ELSE lower(os_environ[n][1]),
                Str(os_environ[n][2])))

env_vars == env_vars_from(1, EmptyDict)

\* a lookup that goes on after a hit and so ends on the last name present
RECURSIVE last_present(_, _)
last_present(names, n) ==
    IF n > Len(names) THEN 0
    ELSE LET later == last_present(names, n + 1)
         IN  IF later # 0 THEN later
             ELSE IF names[n] \in DOMAIN env_vars THEN n ELSE 0

\* the inner loop: the first of the names from position n on that the
\* environment holds (0 when none does)
RECURSIVE first_present(_, _)
first_present(names, n) ==
    IF n > Len(names) THEN 0
    ELSE IF names[n] \in DOMAIN env_vars THEN n
    ELSE first_present(names, n + 1)

RECURSIVE build_environ_from(_, _)
build_environ_from(n, acc) ==
    IF n > Len(fields) THEN acc
    ELSE LET names == env_names[n]
             hit == first_present(names, 1)
         IN  IF hit = 0 THEN build_environ_from(n + 1, acc)
             ELSE LET env_name == names[hit]
                      env_val == env_vars[env_name]
                  IN  IF fields[n].is_complex
                      THEN LET r == json_loads(env_val.s)
                           IN  IF r.ok
                               THEN build_environ_from(n + 1,
                                       [acc EXCEPT !.d = Put(acc.d, fields[n].alias, r.v),
                                                   !.decoded = acc.decoded + 1])
                               ELSE [acc EXCEPT !.decoded = acc.decoded + 1,
                                                !.error = [NoError EXCEPT
                                                              !.type = "SettingsError",
                                                              !.name = env_name,
                                                              !.cause = "ValueError"]]
                      ELSE build_environ_from(n + 1,
                              [acc EXCEPT !.d = Put(acc.d, fields[n].alias, env_val)])

_build_environ == build_environ_from(1, [d |-> EmptyDict, decoded |-> 0, error |-> NoError])

(***************************************************************************)
(* BaseSettings._build_values                                              *)
(***************************************************************************)
\* a merge that ranks the additional values above the environment
_build_values_environ_first(kwargs, environ, additional) ==
    deep_update(deep_update(environ, additional), kwargs)

_build_values(kwargs, environ, additional) ==
    deep_update(deep_update(additional, environ), kwargs)

(***************************************************************************)
(* Inputs.  Names are short: "p" plays the prefix, "a"/"A" and "b"/"B" are  *)
(* the two letters whose casing matters.                                   *)
(***************************************************************************)
MaxGetters == 2

MaxItems == 2

MaxEnvVars == 2

EnvNone == [t |-> "NoneType", names |-> <<>>, repr |-> "None"]

EnvStr(n) == [t |-> "str", names |-> <<n>>, repr |-> "str"]

EnvSet(ns) == [t |-> "set", names |-> ns, repr |-> "set"]

EnvList(ns) == [t |-> "list", names |-> ns, repr |-> "list"]

EnvOther == [t |-> "int", names |-> <<>>, repr |-> "5"]

Field(name, alias, is_complex, env) ==
    [name |-> name, alias |-> alias, is_complex |-> is_complex, env |-> env]

\* sequences of at most n elements of S
RECURSIVE SeqsUpTo(_, _)
SeqsUpTo(S, n) ==
    IF n = 0 THEN {<<>>}
    ELSE LET shorter == SeqsUpTo(S, n - 1)
         IN  shorter \cup {Append(s, x) : s \in {t \in shorter : Len(t) = n - 1}, x \in S}

\* dict literals as sequences of <<key, value>>: no key twice
DistinctKeys(items) ==
    \A m, n \in 1..Len(items) : m # n => items[m][1] # items[n][1]

\* the text the n-th entry of the g-th getter carries: every entry its own
Tag(g, n) == <<<<"v11", "v12", "v13", "v14">>,
               <<"v21", "v22", "v23", "v24">>,
               <<"v31", "v32", "v33", "v34">>,
               <<"v41", "v42", "v43", "v44">>>>[g][n]

Returns(names) == [raises |-> "", items |-> names]

Raises(e) == [raises |-> e, items |-> <<>>]

\* getter lists: at most `maxg` getters returning at most `maxi` entries in all,
\* with keys from Keys; an entry is None, its own text, or a dict holding its
\* own text (as Kinds allows); a getter may raise one of Errors instead
ItemShapes(Keys, Kinds, maxi) ==
    {s \in SeqsUpTo(Keys \X Kinds, maxi) : DistinctKeys(s)}

RECURSIVE GetterShapeLists(_, _, _, _, _)
GetterShapeLists(Keys, Kinds, Errors, maxg, maxi) ==
    IF maxg = 0 THEN {<<>>}
    ELSE {<<>>}
         \cup {<<Raises(e)>> \o rest :
                 e \in Errors, rest \in GetterShapeLists(Keys, Kinds, Errors, maxg - 1, maxi)}
         \cup UNION {{<<Returns(ks)>> \o rest :
                        rest \in GetterShapeLists(Keys, Kinds, Errors, maxg - 1,
                                                  maxi - Len(ks))} :
                     ks \in ItemShapes(Keys, Kinds, maxi)}

ValueOfKind(kind, text) ==
    CASE kind = "None" -> None
      [] kind = "str"  -> Str(text)
      [] kind = "dict" -> Dict([x \in {"j"} |-> Str(text)])

Tagged(gs) ==
    [g \in 1..Len(gs) |->
        [gs[g] EXCEPT !.items =
            [n \in 1..Len(gs[g].items) |->
                <<gs[g].items[n][1], ValueOfKind(gs[g].items[n][2], Tag(g, n))>>]]]

GetterLists(Keys, Kinds, Errors, maxg, maxi) ==
    {Tagged(gs) : gs \in GetterShapeLists(Keys, Kinds, Errors, maxg, maxi)}

Environs(Names, Texts, maxn) ==
    {s \in SeqsUpTo(Names \X Texts, maxn) : DistinctKeys(s)}

Configs(Prefixes, Extras, Getters) ==
    [case_sensitive : BOOLEAN, extra : Extras, env_prefix : Prefixes,
     additional_getters : Getters]

InitWith(Cfgs, Classes, Envs, Kwargs) ==
    /\ config \in Cfgs
    /\ fields \in Classes
    /\ os_environ \in Envs
    /\ init_kwargs \in Kwargs
    /\ env_names = <<>>
    /\ warnings = 0
    /\ pc = "prepare"
    /\ calls = 0
    /\ normalized = EmptyDict
    /\ result = EmptyDict
    /\ environ_values = EmptyDict
    /\ env_read = FALSE
    /\ decoded = 0
    /\ consolidated = EmptyDict
    /\ error = NoError

a == <<"a">>

A == <<"A">>

b == <<"b">>

pa == <<"p", "a">>

ap == <<"a", "p">>

(***************************************************************************)
(* Actions                                                                 *)
(***************************************************************************)
\* the metaclass prepares the next field of the class
PrepareField ==
    /\ pc = "prepare"
    /\ Len(env_names) < Len(fields)
    /\ LET field == fields[Len(env_names) + 1]
       IN  /\ \E r \in prepare_field(field) :
                IF r.error = NoError
                THEN /\ env_names' = Append(env_names, r.names)
                     /\ UNCHANGED <<pc, error>>
                ELSE /\ pc' = "class_error"
                     /\ error' = r.error
                     /\ UNCHANGED env_names
           /\ warnings' = IF field.env.t = "NoneType" /\ has_alias(field)
                          THEN warnings + 1 ELSE warnings
    /\ UNCHANGED <<inputs, calls, normalized, result, environ_values, env_read,
                   decoded, consolidated>>

\* __init__ is entered on the prepared class
Construct ==
    /\ pc = "prepare"
    /\ Len(env_names) = Len(fields)
    /\ pc' = "getters"
    /\ UNCHANGED <<inputs, env_names, warnings, calls, normalized, result,
                   environ_values, env_read, decoded, consolidated, error>>

\* a loop that skips a getter that raises and goes on
CallGetter_swallowing ==
    /\ pc = "getters"
    /\ calls < Len(config.additional_getters)
    /\ LET getter == config.additional_getters[calls + 1]
       IN  /\ calls' = calls + 1
           /\ normalized' = IF getter.raises # "" THEN EmptyDict
                            ELSE _normalize_items(getter.items)
           /\ result' = update(result, normalized')
    /\ UNCHANGED <<inputs, env_names, warnings, environ_values, env_read, decoded,
                   consolidated, pc, error>>

\* one turn of the loop of _get_additional_values
CallGetter ==
    /\ pc = "getters"
    /\ calls < Len(config.additional_getters)
    /\ LET getter == config.additional_getters[calls + 1]
       IN  /\ calls' = calls + 1
           /\ IF getter.raises # ""
              THEN /\ pc' = "failed"
                   /\ error' = [NoError EXCEPT !.type = getter.raises]
                   /\ UNCHANGED <<normalized, result>>
              ELSE /\ normalized' = _normalize_items(getter.items)
                   /\ result' = update(result, normalized')
                   /\ UNCHANGED <<pc, error>>
    /\ UNCHANGED <<inputs, env_names, warnings, environ_values, env_read, decoded,
                   consolidated>>

BuildEnviron ==
    /\ pc = "getters"
    /\ calls = Len(config.additional_getters)
    /\ LET r == _build_environ
       IN  /\ env_read' = TRUE
           /\ decoded' = r.decoded
           /\ IF r.error = NoError
              THEN /\ environ_values' = r.d
                   /\ pc' = "merge"
                   /\ UNCHANGED error
              ELSE /\ error' = r.error
                   /\ pc' = "failed"
                   /\ UNCHANGED environ_values
    /\ UNCHANGED <<inputs, env_names, warnings, calls, normalized, result, consolidated>>

BuildValues ==
    /\ pc = "merge"
    /\ consolidated' = _build_values(init_kwargs, environ_values, result)
    /\ pc' = "validate"
    /\ UNCHANGED <<inputs, env_names, warnings, calls, normalized, result,
                   environ_values, env_read, decoded, error>>

\* super().__init__(**consolidated)
SuperInit ==
    /\ pc = "validate"
    /\ pc' = "done"
    /\ UNCHANGED <<inputs, env_names, warnings, calls, normalized, result,
                   environ_values, env_read, decoded, consolidated, error>>

Next == \/ PrepareField
        \/ Construct
        \/ CallGetter
        \/ BuildEnviron
        \/ BuildValues
        \/ SuperInit

(***************************************************************************)
(* The getters in depth: every configuration, keys that collide after      *)
(* case folding or prefix removal, None entries                            *)
(***************************************************************************)
GetterClasses ==
    { <<Field(b, b, FALSE, EnvNone)>>,
      <<Field(a, A, FALSE, EnvNone), Field(b, ap, FALSE, EnvNone)>> }

InitGetters ==
    InitWith(Configs({<<>>, <<"p">>}, {"forbid", "allow", "ignore"},
                     GetterLists({a, A, pa, ap}, {"None", "str"}, {},
                                 MaxGetters, MaxItems)),
             GetterClasses,
             {<<>>, << <<b, "e">> >>},
             {EmptyDict})

SpecGetters == InitGetters /\ [][Next]_vars

(***************************************************************************)
(* What the claims speak of                                                *)
(***************************************************************************)
getters == config.additional_getters

\* the getters that have returned so far
Returned == {g \in 1..calls : getters[g].raises = ""}

\* <<g, n>>: the n-th entry of the g-th getter, for the getters in G
EntriesOf(G) == UNION {{<<g, n>> : n \in 1..Len(getters[g].items)} : g \in G}

KeyOf(e) == getters[e[1]].items[e[2]][1]

ValueOf(e) == getters[e[1]].items[e[2]][2]

Later(e, f) == e[1] > f[1] \/ (e[1] = f[1] /\ e[2] > f[2])

\* the key with its case folded as the configuration asks
Folded(name) == IF config.case_sensitive THEN name ELSE lower(name)

\* removal of one leading occurrence of the prefix
StripLeading(s, p) ==
    IF p # <<>> /\ StartsWith(s, p) THEN SubSeq(s, Len(p) + 1, Len(s)) ELSE s

\* the key matches a field alias (exactly, or up to case in case-insensitive mode)
Matches(name) == IF config.case_sensitive THEN name \in legal_names
                 ELSE lower(name) \in legal_lower_names

Merged == pc \in {"validate", "done"}

Supplying(k) ==
    {e \in EntriesOf(Returned) :
        /\ ValueOf(e) # None
        /\ normalize_key(KeyOf(e), ValueOf(e)).kept
        /\ normalize_key(KeyOf(e), ValueOf(e)).key = k}

(***************************************************************************)
(* C5: additionalValues holds, for every key, the value of the last        *)
(* non-null entry (in registration order, then in the getter's own order)  *)
(* that normalizes to that key; null entries neither appear nor remove or  *)
(* replace an earlier getter's value.                                      *)
(***************************************************************************)
Additional_LastNonNullWins ==
    \A k \in DOMAIN result \cup
             {normalize_key(KeyOf(e), ValueOf(e)).key : e \in EntriesOf(Returned)} :
        /\ k \in DOMAIN result <=> Supplying(k) # {}
        /\ \A e \in Supplying(k) :
              (\A f \in Supplying(k) : ~Later(f, e)) => result[k] = ValueOf(e)

\* a second getter answered None for a key the first one had supplied, and
\* the first one's value is still there
Additional_NullAfterValue ==
    /\ calls = 2
    /\ Returned = {1, 2}
    /\ \E e, f \in EntriesOf(Returned) :
          /\ e[1] = 1 /\ f[1] = 2
          /\ KeyOf(e) = KeyOf(f)
          /\ ValueOf(e) # None /\ ValueOf(f) = None
          /\ Supplying(normalize_key(KeyOf(e), ValueOf(e)).key) = {e}
          /\ result[normalize_key(KeyOf(e), ValueOf(e)).key] = ValueOf(e)

(***************************************************************************)
(* C10: under the forbid policy every key the normalizer returns, and      *)
(* hence every key of additionalValues, is the alias of a declared field.  *)
(***************************************************************************)
Normalize_ForbidKeysAreAliases ==
    config.extra = "forbid" =>
        /\ DOMAIN normalized \subseteq legal_names
        /\ DOMAIN result \subseteq legal_names

(***************************************************************************)
(* C2: a kept entry's key is the (possibly lower-cased) input key with     *)
(* only one leading occurrence of the prefix removed.                      *)
(***************************************************************************)
Normalize_StripsOnlyLeadingPrefix ==
    (calls >= 1 /\ calls \in Returned) =>
        LET kept == {e \in EntriesOf({calls}) :
                        normalize_key(KeyOf(e), ValueOf(e)).kept}
        IN  DOMAIN normalized =
               {StripLeading(Folded(KeyOf(e)), config.env_prefix) : e \in kept}

\* the unmatched, non-null entries that alone lead to key KeyAs(e)
Extras(KeyAs(_)) ==
    {e \in EntriesOf(Returned) :
        /\ ValueOf(e) # None
        /\ ~Matches(KeyOf(e))
        /\ \A f \in EntriesOf(Returned) :
              (f # e /\ ValueOf(f) # None) =>
                  /\ KeyAs(f) # KeyAs(e)
                  /\ replace(Folded(KeyOf(f)), config.env_prefix) # KeyAs(e)
        /\ KeyAs(e) \notin DOMAIN environ_values \cup DOMAIN init_kwargs}

NormalizedKey(e) == replace(Folded(KeyOf(e)), config.env_prefix)

VerbatimKey(e) == replace(KeyOf(e), config.env_prefix)

(***************************************************************************)
(* C4: a getter entry whose key matches no field alias, when no other      *)
(* getter entry normalizes to the same key and neither the environment nor *)
(* the caller supplies that key: under forbid the key is absent from the   *)
(* consolidated mapping; under allow it is present with the getter's value *)
(* under the key as the normalizer leaves it, which is the key case-folded *)
(* in case-insensitive mode, with the prefix text removed.                 *)
(***************************************************************************)
Extra_PolicyOnNormalizedKey ==
    Merged =>
        \A e \in Extras(NormalizedKey) :
            /\ config.extra = "forbid" => NormalizedKey(e) \notin DOMAIN consolidated
            /\ config.extra \in {"allow", "ignore"} =>
                  /\ NormalizedKey(e) \in DOMAIN consolidated
                  /\ consolidated[NormalizedKey(e)] = ValueOf(e)

\* C4 as written: under allow the key is present verbatim (apart from prefix
\* stripping), in case-insensitive mode too
Extra_AllowKeepsKeyVerbatim ==
    Merged =>
        \A e \in Extras(VerbatimKey) :
            /\ config.extra = "forbid" => VerbatimKey(e) \notin DOMAIN consolidated
            /\ config.extra = "allow" =>
                  /\ VerbatimKey(e) \in DOMAIN consolidated
                  /\ consolidated[VerbatimKey(e)] = ValueOf(e)

\* under allow an unmatched key reached the consolidated mapping in another
\* casing than the getter gave it
Extra_UnmatchedUpperCaseKey ==
    /\ pc = "done"
    /\ ~config.case_sensitive
    /\ config.extra = "allow"
    /\ \E e \in Extras(NormalizedKey) :
          /\ NormalizedKey(e) # VerbatimKey(e)
          /\ consolidated[NormalizedKey(e)] = ValueOf(e)

(***************************************************************************)
(* The environment in depth: every shape of a field's env setting, names   *)
(* in both casings, texts that decode and texts that do not, getters that  *)
(* return or raise                                                         *)
(***************************************************************************)
EnvShapes == {EnvNone, EnvStr(A), EnvList(<<b, A>>), EnvSet(<<A, b>>),
              EnvSet(<<A, a>>), EnvOther}

EnvironClasses ==
    LET first == {Field(a, a, c, e) : c \in BOOLEAN, e \in EnvShapes}
        second == {Field(b, b, TRUE, EnvNone), Field(b, b, FALSE, EnvOther)}
    IN  {<<f>> : f \in first} \cup {<<f, g>> : f \in first, g \in second}

InitEnviron ==
    InitWith(Configs({<<>>}, {"forbid"},
                     GetterLists({}, {}, {"FileNotFoundError", "ValueError"},
                                 MaxGetters, MaxItems)),
             EnvironClasses,
             Environs({a, A, b}, {"x", "{k:1}"}, MaxEnvVars),
             {EmptyDict})

SpecEnviron == InitEnviron /\ [][Next]_vars

\* the names a field declares for its environment variables, as written
DeclaredNames(f) == IF f.env.t = "NoneType" THEN {config.env_prefix \o f.name}
                    ELSE Range(f.env.names)

\* the text the environment holds under a (case-folded) name: when several
\* variables fold to the name, the one os.environ lists last
Holds(name) == \E n \in 1..Len(os_environ) : Folded(os_environ[n][1]) = name

TextOf(name) ==
    LET last == CHOOSE n \in 1..Len(os_environ) :
                    /\ Folded(os_environ[n][1]) = name
                    /\ \A m \in n + 1..Len(os_environ) : Folded(os_environ[m][1]) # name
    IN  os_environ[last][2]

\* the position in the field's lookup order of the name that supplies it
Suppliers(n) == {i \in 1..Len(env_names[n]) :
                    /\ Holds(env_names[n][i])
                    /\ \A j \in 1..i - 1 : ~Holds(env_names[n][j])}

Supplied(n) == Suppliers(n) # {}

SupplierName(n) == env_names[n][CHOOSE i \in Suppliers(n) : TRUE]

Undecodable(n) ==
    fields[n].is_complex /\ Supplied(n) /\ ~json_loads(TextOf(SupplierName(n))).ok

Prepared == Len(env_names) = Len(fields)

EnvironBuilt == pc \in {"merge", "validate", "done"}

ValidShape(env) == env.t \in {"NoneType", "str", "set", "frozenset", "list", "tuple"}

Environ_DecodeErrorNamesSupplier ==
    /\ error.type = "SettingsError" =>
          /\ pc = "failed"
          /\ consolidated = EmptyDict /\ environ_values = EmptyDict
          /\ \E n \in 1..Len(fields) :
                /\ Undecodable(n)
                /\ \A m \in 1..n - 1 : ~Undecodable(m)
                /\ error.name = SupplierName(n)
                /\ error.cause = "ValueError"
    /\ (env_read /\ \E n \in 1..Len(fields) : Undecodable(n)) =>
          error.type = "SettingsError"
    /\ EnvironBuilt =>
          /\ \A n \in 1..Len(fields) :
                (Supplied(n) /\ ~fields[n].is_complex) =>
                    environ_values[fields[n].alias] = Str(TextOf(SupplierName(n)))
          /\ decoded = Cardinality({n \in 1..Len(fields) :
                                       fields[n].is_complex /\ Supplied(n)})

\* the text came from the second name of the lookup order, and that is the
\* name the error quotes
Environ_ErrorQuotesSecondName ==
    /\ pc = "failed"
    /\ error.type = "SettingsError"
    /\ \E n \in 1..Len(fields) :
          /\ Undecodable(n)
          /\ Len(env_names[n]) = 2
          /\ error.name = env_names[n][2]
          /\ error.name # env_names[n][1]

Raising == {g \in 1..Len(getters) : getters[g].raises # ""}

(***************************************************************************)
(* C7: sources are processed in the order getters (in registration order), *)
(* environment, merge, and the first error in that order ends resolution:  *)
(* a getter's error propagates unchanged, no later getter is invoked, the  *)
(* environment is not read and nothing is decoded; a decode error is       *)
(* reported only after every getter has returned.                          *)
(***************************************************************************)
Resolve_FirstErrorInSourceOrder ==
    /\ \A g \in Raising : calls <= g
    /\ env_read => (calls = Len(getters) /\ Raising = {})
    /\ decoded > 0 => env_read
    /\ (pc \in {"merge", "validate", "done"}) => env_read
    /\ (calls \in Raising) =>
          /\ pc = "failed"
          /\ error = [NoError EXCEPT !.type = getters[calls].raises]
          /\ ~env_read /\ decoded = 0
    /\ error.type = "SettingsError" => (Raising = {} /\ calls = Len(getters))
    /\ (pc = "failed" /\ ~env_read) => calls \in Raising

\* the first of two getters raised a ValueError while the environment held a
\* text that would not have decoded: the ValueError is what is reported
Resolve_GetterErrorBeforeDecodeError ==
    /\ pc = "failed"
    /\ Len(getters) = 2
    /\ calls = 1
    /\ error.type = "ValueError"
    /\ ~env_read
    /\ \E n \in 1..Len(fields) : Undecodable(n)

\* the environment variables that name the field
Naming(f) == {n \in 1..Len(os_environ) :
                \E d \in DeclaredNames(f) :
                    IF config.case_sensitive THEN os_environ[n][1] = d
                    ELSE lower(os_environ[n][1]) = lower(d)}

(***************************************************************************)
(* C8: in case-insensitive mode an environment variable supplies a field   *)
(* when its name equals one of the field's declared env names up to case,  *)
(* whatever the casing of either; in case-sensitive mode only when the two *)
(* are equal character for character.                                      *)
(***************************************************************************)
Environ_CaseHandling ==
    EnvironBuilt =>
        \A n \in 1..Len(fields) :
            LET f == fields[n]
            IN  /\ f.alias \in DOMAIN environ_values <=> Naming(f) # {}
                /\ Naming(f) # {} =>
                      \E v \in Naming(f) :
                          environ_values[f.alias] =
                              IF f.is_complex THEN json_loads(os_environ[v][2]).v
                              ELSE Str(os_environ[v][2])

\* a variable spelled in one casing supplied a field that declared the name
\* in the other
Environ_SuppliedAcrossCasing ==
    /\ pc = "done"
    /\ ~config.case_sensitive
    /\ \E n \in 1..Len(fields) :
          /\ fields[n].alias \in DOMAIN environ_values
          /\ Naming(fields[n]) # {}
          /\ \A v \in Naming(fields[n]) :
                os_environ[v][1] \notin DeclaredNames(fields[n])

(***************************************************************************)
(* Precedence and merge in depth: the same key from the getters, the       *)
(* environment and the caller, as text and as (nested) mappings            *)
(***************************************************************************)
PrecedenceClasses ==
    {<<Field(a, al, c, EnvNone)>> : al \in {a, A}, c \in BOOLEAN}
        \cup {<<Field(a, a, c, EnvNone), Field(b, b, FALSE, EnvList(<<b, A>>))>> :
                 c \in BOOLEAN}

PrecedenceKwargs ==
    {EmptyDict} \cup
    {[x \in {a} |-> v] : v \in {Str("w"),
                                Dict([y \in {"j"} |-> Str("w")]),
                                Dict([y \in {"k"} |-> Dict([z \in {"v"} |-> Str("w")])])}}

Init ==
    InitWith(Configs({<<>>}, {"forbid", "allow"},
                     GetterLists({a, b}, {"None", "str", "dict"}, {},
                                 MaxGetters - 1, MaxItems)),
             PrecedenceClasses,
             Environs({a, b}, {"x", "{k:1}", "{k:{u:1}}"}, MaxEnvVars),
             PrecedenceKwargs)

Spec == Init /\ [][Next]_vars

\* `maps` gives a mapping for each of the ranks in I, higher ranks overriding
RECURSIVE Layered(_, _)
Layered(maps, I) ==
    [k \in UNION {DOMAIN maps[i] : i \in I} |->
        LET has == {i \in I : k \in DOMAIN maps[i]}
            top == CHOOSE i \in has : \A j \in has : j <= i
            merged == {i \in has : \A j \in has : j >= i => maps[j][k].t = "dict"}
        IN  IF maps[top][k].t # "dict" THEN maps[top][k]
            ELSE Dict(Layered([i \in merged |-> maps[i][k].m], merged))]

(***************************************************************************)
(* C9: the consolidated mapping is the additional values, deep-updated     *)
(* with the environment values, deep-updated with the explicit values: a   *)
(* key holds the value of the highest source that has it, except that      *)
(* mappings met on the way down from the top are merged sub-key by sub-key *)
(* in the same manner, until a source holds something else than a mapping. *)
(***************************************************************************)
Merge_DeepUpdateInPrecedenceOrder ==
    Merged => consolidated = Layered(<<result, environ_values, init_kwargs>>, {1, 2, 3})

\* all three sources held a mapping under one key, and a sub-key that only
\* the lowest one gave is in the result beside the others
Merge_ThreeMappingsMerged ==
    /\ pc = "done"
    /\ \E k \in DOMAIN consolidated :
          /\ k \in DOMAIN result /\ k \in DOMAIN environ_values /\ k \in DOMAIN init_kwargs
          /\ result[k].t = "dict" /\ environ_values[k].t = "dict"
          /\ init_kwargs[k].t = "dict"
          /\ DOMAIN consolidated[k].m = {"j", "k"}
          /\ consolidated[k].m["k"] = Dict([z \in {"u", "v"} |->
                                              IF z = "u" THEN Str("1") ELSE Str("w")])

\* the non-null getter entries whose key names the field
AuxFor(f) == {e \in EntriesOf(Returned) :
                /\ ValueOf(e) # None
                /\ IF config.case_sensitive THEN KeyOf(e) = f.alias
                   ELSE lower(KeyOf(e)) = lower(f.alias)}

LastOf(E) == CHOOSE e \in E : \A f \in E : ~Later(f, e)

(***************************************************************************)
(* C1: for every non-complex field the value handed to validation is the   *)
(* explicit value if the caller passed one, else the first present         *)
(* environment value among the field's env names, else the merged          *)
(* auxiliary value, else nothing; and no entry an auxiliary source gave    *)
(* for the field remains under another key.                                *)
(* An explicit value that is a mapping is merged, not taken as it is (C9): *)
(* the statement is about the other explicit values.                       *)
(***************************************************************************)
Resolve_NonComplexPrecedence ==
    Merged =>
        \A n \in 1..Len(fields) :
            LET f == fields[n]
                explicit == f.alias \in DOMAIN init_kwargs
            IN  (~f.is_complex /\ (explicit => init_kwargs[f.alias].t # "dict")) =>
                  /\ IF explicit
                         THEN /\ f.alias \in DOMAIN consolidated
                              /\ consolidated[f.alias] = init_kwargs[f.alias]
                     ELSE IF Supplied(n)
                         THEN /\ f.alias \in DOMAIN consolidated
                              /\ consolidated[f.alias] = Str(TextOf(SupplierName(n)))
                     ELSE IF AuxFor(f) # {}
                         THEN /\ f.alias \in DOMAIN consolidated
                              /\ consolidated[f.alias] = ValueOf(LastOf(AuxFor(f)))
                     ELSE f.alias \notin DOMAIN consolidated
                  /\ \A e \in AuxFor(f) :
                        NormalizedKey(e) # f.alias =>
                            NormalizedKey(e) \notin DOMAIN consolidated

\* where every alias is lower-case already the statement of C1 does hold
PlainAliases == \A n \in 1..Len(fields) : fields[n].alias = lower(fields[n].alias)

Resolve_NonComplexPrecedenceOfPlainAliases ==
    PlainAliases => Resolve_NonComplexPrecedence

====
